---------------------------- MODULE Spec2Model ----------------------------
(***************************************************************************)
(* A model of sim.py: the Box-Muller / sigmoid score synthesizer, the      *)
(* simulation loop that writes scores.csv, and the paired-sample           *)
(* statistics that follow it.                                              *)
(*                                                                         *)
(* Python floats are modelled in fixed point: a float x is the integer     *)
(* x * Scale, rounded.  The three means are kept as exact fractions        *)
(* [num, den].  A uniform draw of random.random() is the dyadic fraction   *)
(* num / 2^exp, written <<num, exp>>.                                      *)
(***************************************************************************)
EXTENDS Integers, Sequences, FiniteSets

VARIABLES
    \* ---- the script (module level of sim.py) ----
    pc,           \* position of the script: open, header, loop, stats, report, done, aborted
    SAMPLE_SIZE,  \* the configured sample size
    fd,           \* the file object of scores.csv: unopened, open, closed
    opens,        \* how many times open() succeeded
    closes,       \* how many times fd.close() ran
    file,         \* the rows written to scores.csv through fd (the path is opened
                  \* directly, so this is what scores.csv holds once fd is flushed)
    i,            \* the index the for loop yields next
    preTotal, postTotal, diffTotal, diffList,
    preMean, postMean, diffMean,
    sumSqDiff, diffsVariance, diffStdDev, stdError, pairedTTest, cohensD,
    stdout,       \* the lines printed
    exception,    \* the uncaught exception that ended the script, or "none"
    logAtZero,    \* math.log has been evaluated at 0
    \* ---- a single call of the score synthesizer on its own ----
    step,         \* input, shaped, scored, raised
    source,       \* where proc came from: none, box_muller, patched
    b1, b2,       \* two bias factors tried on the same draw
    z0,           \* the normal deviate drawn
    proc,         \* the shaped deviate (line 84)
    score1, score2

scriptVars == <<pc, SAMPLE_SIZE, fd, opens, closes, file, i, preTotal, postTotal,
                diffTotal, diffList, preMean, postMean, diffMean, sumSqDiff,
                diffsVariance, diffStdDev, stdError, pairedTTest, cohensD,
                stdout, exception, logAtZero>>
callVars == <<step, source, b1, b2, z0, proc, score1, score2>>
vars == <<scriptVars, callVars>>

----------------------------------------------------------------------------
(* Bounds of the model.                                                    *)

MaxSampleSize == 3
\* bias factors tried: k / FactorDiv for k in -FactorDiv .. FactorDiv
FactorDiv == 10
\* patched shaped deviates tried: k / ProcDiv for 0 < k < 20 * ProcDiv
ProcDiv == 4

----------------------------------------------------------------------------
(* Fixed point and the math library.                                       *)

Scale == 10^4

\* floor(sqrt(n)) for n >= 0, by bisection on [lo, hi)
RECURSIVE isqrt_between(_, _, _)
isqrt_between(n, lo, hi) ==
    IF hi - lo <= 1 THEN lo
    ELSE LET mid == (lo + hi) \div 2
         IN  IF mid * mid <= n THEN isqrt_between(n, mid, hi)
                               ELSE isqrt_between(n, lo, mid)

\* math.sqrt on a fixed-point argument x >= 0: sqrt(x / Scale) * Scale
math_sqrt(x) == isqrt_between(x * 100, 0, 46341) * 10

\* ln 2 and pi in fixed point
Ln2 == 6931
math_pi == 31416

\* math.log of the draw u = 1 / 2^exp (u > 0): -exp * ln 2
math_log(u) == -(u[2] * Ln2)

\* 2.0 * math.pi * u2 for the draw u2 = num / 2^exp
two_pi_times(u) == IF u[1] = 0 THEN 0 ELSE (2 * math_pi * u[1]) \div (2^(u[2]))

\* math.cos and math.sin at the angles the draws of u2 give
math_cos(a) == CASE a = 0 -> Scale
                 [] a = 15708 -> 0
                 [] a = 31416 -> -Scale
math_sin(a) == CASE a = 0 -> 0
                 [] a = 15708 -> Scale
                 [] a = 31416 -> 0

\* math.exp at the arguments -z0 the draws give (rounded to 1/Scale)
math_exp(x) == CASE x = -85710 -> 2
                 [] x = 0      -> Scale
                 [] x = 85710  -> 52764036

----------------------------------------------------------------------------
(* The random source: the draws random.random() may return, in [0, 1).     *)

ZeroDraw == <<0, 53>>
\* u1: 0 and the least positive draw, 2^-53
U1Draws == {ZeroDraw, <<1, 53>>}
\* u2: 0, 1/4 and 1/2
U2Draws == {ZeroDraw, <<1, 2>>, <<1, 1>>}

\* math.log(u1) raises ValueError (math domain error) at 0
log_raises(u1) == u1[1] = 0

----------------------------------------------------------------------------
(* box_muller, gen_variable_procedural, gen_simulated_learner_score.       *)

\* lines 24-37, for u1 > 0: the pair <<z0, z1>>
box_muller(u1, u2) ==
    LET r == math_sqrt(-2 * math_log(u1))
        a == two_pi_times(u2)
    IN  << (r * math_cos(a)) \div Scale, (r * math_sin(a)) \div Scale >>

\* line 53: the sigmoid 1 / (1 + exp(-z))
sigmoid(z) == (Scale * Scale) \div (Scale + math_exp(-z))

\* line 56 dropped: the sigmoid is returned without rescaling
gen_variable_procedural_unscaled(initialStdDev, u1, u2) ==
    sigmoid(box_muller(u1, u2)[1])

\* lines 42-56
gen_variable_procedural(initialStdDev, u1, u2) ==
    sigmoid(box_muller(u1, u2)[1]) * initialStdDev

SIMULATED_ASSESSMENT_QUIZ_ITEMS == 50
initial_std_dev == 20

\* line 77
extremes == SIMULATED_ASSESSMENT_QUIZ_ITEMS - initial_std_dev
\* line 81, a float
median_half_terminal == (extremes * Scale) \div 2

\* line 90 with the sign of alpha flipped
learner_score_negated_alpha(inverseBiasingFactor, shaped) ==
    LET alpha == (inverseBiasingFactor * median_half_terminal) \div Scale
    IN  (median_half_terminal - alpha + shaped) \div Scale

\* line 94 starting from extremes instead of median_half_terminal
learner_score_unhalved(inverseBiasingFactor, shaped) ==
    LET alpha == (inverseBiasingFactor * median_half_terminal) \div Scale
    IN  ((extremes * Scale) + alpha + shaped) \div Scale

\* lines 72-94 after line 84 has bound proc to `shaped`
learner_score(inverseBiasingFactor, shaped) ==
    LET alpha == (inverseBiasingFactor * median_half_terminal) \div Scale
    IN  (median_half_terminal + alpha + shaped) \div Scale

\* lines 62-94, for draws on which box_muller returns
gen_simulated_learner_score(inverseBiasingFactor, u1, u2) ==
    learner_score(inverseBiasingFactor,
                  gen_variable_procedural(initial_std_dev, u1, u2))


----------------------------------------------------------------------------
(* The script: lines 96-159.                                               *)

\* the bias factors of lines 119 and 120: 0.15 and 0.60
PRE_FACTOR == 1500
POST_FACTOR == 6000

\* lines 100-105
HeaderRow == <<"student ref id", "pre-quiz score", "post-quiz score", "score difference">>

\* line 121 with the operands swapped
score_difference_swapped(postQuiz, preQuiz) == preQuiz - postQuiz

\* line 121
score_difference(postQuiz, preQuiz) == postQuiz - preQuiz

\* line 123 with a 1-based index
csv_row_one_based(index, preQuiz, postQuiz, diff) == <<index + 1, preQuiz, postQuiz, diff>>

\* line 123: the list handed to writer.writerow
csv_row(index, preQuiz, postQuiz, diff) == <<index, preQuiz, postQuiz, diff>>

\* lines 126-128 with = in place of +=
accumulate_overwriting(total, x) == x

\* lines 126-128: total += x
accumulate(total, x) == total + x

\* a float held as an exact fraction; den = 0 marks a name not yet assigned
Unassigned == [num |-> 0, den |-> 0]
\* lines 133-135: total / SAMPLE_SIZE
mean_of(total, n) == [num |-> total, den |-> n]

\* a fraction rounded to fixed point
to_fixed(q) == (q.num * Scale) \div q.den
\* float division a / b of two fixed-point values, b # 0
float_div(a, b) == ((a * 1000) \div b) * (Scale \div 1000)

RECURSIVE sum_sq_dev(_, _)
\* line 137: sum((x - m) ** 2 for x in xs), as a fraction over m.den ^ 2
sum_sq_dev(xs, m) ==
    IF xs = << >> THEN 0
    ELSE (m.den * Head(xs) - m.num) * (m.den * Head(xs) - m.num) + sum_sq_dev(Tail(xs), m)

\* the script stops on an uncaught exception: nothing after the raise runs
Abort(e) ==
    /\ pc' = "aborted"
    /\ exception' = e

\* lines 97-98: fd = open("scores.csv", mode="w")
Open ==
    /\ pc = "open"
    /\ \E opened \in BOOLEAN :
          IF opened
          THEN /\ fd' = "open"
               /\ opens' = opens + 1
               /\ file' = << >>
               /\ pc' = "header"
               /\ UNCHANGED exception
          ELSE /\ Abort("OSError")
               /\ UNCHANGED <<fd, opens, file>>
    /\ UNCHANGED <<SAMPLE_SIZE, closes, i, preTotal, postTotal, diffTotal, diffList,
                   preMean, postMean, diffMean, sumSqDiff, diffsVariance, diffStdDev,
                   stdError, pairedTTest, cohensD, stdout, logAtZero>>
    /\ UNCHANGED callVars

\* lines 100-113: the header row, then the totals set to zero
WriteHeader ==
    /\ pc = "header"
    /\ \E written \in BOOLEAN :
          IF written
          THEN /\ file' = Append(file, HeaderRow)
               /\ preTotal' = 0
               /\ postTotal' = 0
               /\ diffTotal' = 0
               /\ diffList' = << >>
               /\ pc' = IF 0 < SAMPLE_SIZE THEN "loop" ELSE "stats"
               /\ UNCHANGED exception
          ELSE /\ Abort("OSError")
               /\ UNCHANGED <<file, preTotal, postTotal, diffTotal, diffList>>
    /\ UNCHANGED <<SAMPLE_SIZE, fd, opens, closes, i, preMean, postMean, diffMean,
                   sumSqDiff, diffsVariance, diffStdDev, stdError, pairedTTest,
                   cohensD, stdout, logAtZero>>
    /\ UNCHANGED callVars

\* lines 116-129: one iteration of the for loop
SimulateRow ==
    /\ pc = "loop"
    /\ \E u1a \in U1Draws, u2a \in U2Draws, u1b \in U1Draws, u2b \in U2Draws,
          written \in BOOLEAN :
          IF log_raises(u1a) \/ log_raises(u1b)
          THEN \* math.log(0.0) at line 34: ValueError, math domain error
               /\ logAtZero' = TRUE
               /\ Abort("ValueError")
               /\ UNCHANGED <<file, i, preTotal, postTotal, diffTotal, diffList>>
          ELSE LET preQuiz  == gen_simulated_learner_score(PRE_FACTOR, u1a, u2a)
                   postQuiz == gen_simulated_learner_score(POST_FACTOR, u1b, u2b)
                   diff     == score_difference(postQuiz, preQuiz)
               IN  IF written
                   THEN /\ file' = Append(file, csv_row(i, preQuiz, postQuiz, diff))
                        /\ preTotal' = accumulate(preTotal, preQuiz)
                        /\ postTotal' = accumulate(postTotal, postQuiz)
                        /\ diffTotal' = accumulate(diffTotal, diff)
                        /\ diffList' = Append(diffList, diff)
                        /\ i' = i + 1
                        /\ pc' = IF i + 1 < SAMPLE_SIZE THEN "loop" ELSE "stats"
                        /\ UNCHANGED <<exception, logAtZero>>
                   ELSE /\ Abort("OSError")
                        /\ UNCHANGED <<file, i, preTotal, postTotal, diffTotal,
                                       diffList, logAtZero>>
    /\ UNCHANGED <<SAMPLE_SIZE, fd, opens, closes, preMean, postMean, diffMean,
                   sumSqDiff, diffsVariance, diffStdDev, stdError, pairedTTest,
                   cohensD, stdout>>
    /\ UNCHANGED callVars

\* lines 133-144: the means and the paired statistics
Statistics ==
    /\ pc = "stats"
    /\ LET m   == mean_of(diffTotal, SAMPLE_SIZE)
           ssq == [num |-> sum_sq_dev(diffList, m), den |-> m.den * m.den]
           var == [num |-> ssq.num, den |-> ssq.den * (SAMPLE_SIZE - 1)]
           sd  == math_sqrt(to_fixed(var))
           se  == float_div(sd, math_sqrt(SAMPLE_SIZE * Scale))
       IN  /\ preMean' = mean_of(preTotal, SAMPLE_SIZE)
           /\ postMean' = mean_of(postTotal, SAMPLE_SIZE)
           /\ diffMean' = m
           /\ sumSqDiff' = ssq
           /\ IF SAMPLE_SIZE - 1 = 0
              THEN \* line 138: float division by zero
                   /\ Abort("ZeroDivisionError")
                   /\ UNCHANGED <<diffsVariance, diffStdDev, stdError, pairedTTest, cohensD>>
              ELSE /\ diffsVariance' = var
                   /\ diffStdDev' = sd
                   /\ stdError' = se
                   /\ IF se = 0
                      THEN \* line 142: float division by zero
                           /\ Abort("ZeroDivisionError")
                           /\ UNCHANGED <<pairedTTest, cohensD>>
                      ELSE /\ pairedTTest' = float_div(to_fixed(m), se)
                           /\ IF sd = 0
                              THEN \* line 144: float division by zero
                                   /\ Abort("ZeroDivisionError")
                                   /\ UNCHANGED cohensD
                              ELSE /\ cohensD' = float_div(to_fixed(m), sd)
                                   /\ pc' = "report"
                                   /\ UNCHANGED exception
    /\ UNCHANGED <<SAMPLE_SIZE, fd, opens, closes, file, i, preTotal, postTotal,
                   diffTotal, diffList, stdout, logAtZero>>
    /\ UNCHANGED callVars

\* lines 146-159: the report, then fd.close()
Report ==
    /\ pc = "report"
    /\ stdout' = << <<"sample size:", SAMPLE_SIZE>>,
                    <<"sim quiz items:", SIMULATED_ASSESSMENT_QUIZ_ITEMS>>,
                    <<"RESULTS:">>,
                    <<"pre-quiz mean:", preMean>>,
                    <<"post-quiz mean:", postMean>>,
                    <<"FOR PAIRED T-TEST AND COHEN'S D ANALYSIS:">>,
                    <<"difference mean:", diffMean>>,
                    <<"diff std dev:", diffStdDev>>,
                    <<"ANALYSIS VALUES:">>,
                    <<"t-statistic:", pairedTTest>>,
                    <<"cohen's d:", cohensD>> >>
    /\ fd' = "closed"
    /\ closes' = closes + 1
    /\ pc' = "done"
    /\ UNCHANGED <<SAMPLE_SIZE, opens, file, i, preTotal, postTotal, diffTotal, diffList,
                   preMean, postMean, diffMean, sumSqDiff, diffsVariance, diffStdDev,
                   stdError, pairedTTest, cohensD, exception, logAtZero>>
    /\ UNCHANGED callVars

\* the script before line 97, for the sample size n
ScriptStart(n) ==
    /\ pc = "open"
    /\ SAMPLE_SIZE = n
    /\ fd = "unopened"
    /\ opens = 0
    /\ closes = 0
    /\ file = << >>
    /\ i = 0
    /\ preTotal = 0
    /\ postTotal = 0
    /\ diffTotal = 0
    /\ diffList = << >>
    /\ preMean = Unassigned
    /\ postMean = Unassigned
    /\ diffMean = Unassigned
    /\ sumSqDiff = Unassigned
    /\ diffsVariance = Unassigned
    /\ diffStdDev = 0
    /\ stdError = 0
    /\ pairedTTest = 0
    /\ cohensD = 0
    /\ stdout = << >>
    /\ exception = "none"
    /\ logAtZero = FALSE

\* no call of the synthesizer under study
CallIdle ==
    /\ step = "idle"
    /\ source = "none"
    /\ b1 = 0
    /\ b2 = 0
    /\ z0 = 0
    /\ proc = 0
    /\ score1 = 0
    /\ score2 = 0

Init ==
    /\ \E n \in 1..MaxSampleSize : ScriptStart(n)
    /\ CallIdle

Next ==
    \/ Open
    \/ WriteHeader
    \/ SimulateRow
    \/ Statistics
    \/ Report

Spec == Init /\ [][Next]_vars

----------------------------------------------------------------------------
(* One call of gen_simulated_learner_score, for two bias factors on the    *)
(* same draw.                                                              *)

\* inverseBiasingFactor in [-1.0, 1.0] (line 61), with the script's two factors
Factors == {(k * Scale) \div FactorDiv : k \in (-FactorDiv)..FactorDiv}
               \cup {PRE_FACTOR, POST_FACTOR}

\* shaped deviates in the open interval (0, initial_std_dev)
ProcGrid == {1, initial_std_dev * Scale - 1}
               \cup {(k * Scale) \div ProcDiv : k \in 1..(initial_std_dev * ProcDiv - 1)}

\* line 84 with the random source drawing u1, u2
DrawShaped ==
    /\ step = "input"
    /\ \E u1 \in U1Draws, u2 \in U2Draws :
          IF log_raises(u1)
          THEN /\ step' = "raised"
               /\ UNCHANGED <<source, z0, proc>>
          ELSE /\ step' = "shaped"
               /\ source' = "box_muller"
               /\ z0' = box_muller(u1, u2)[1]
               /\ proc' = gen_variable_procedural(initial_std_dev, u1, u2)
    /\ UNCHANGED <<b1, b2, score1, score2>>
    /\ UNCHANGED scriptVars

\* line 84 with gen_variable_procedural patched to return p
PatchShaped ==
    /\ step = "input"
    /\ \E p \in ProcGrid :
          /\ step' = "shaped"
          /\ source' = "patched"
          /\ proc' = p
    /\ UNCHANGED <<b1, b2, z0, score1, score2>>
    /\ UNCHANGED scriptVars

\* lines 72-94 for b1 and for b2
Score ==
    /\ step = "shaped"
    /\ score1' = learner_score(b1, proc)
    /\ score2' = learner_score(b2, proc)
    /\ step' = "scored"
    /\ UNCHANGED <<source, b1, b2, z0, proc>>
    /\ UNCHANGED scriptVars

InitScore ==
    /\ ScriptStart(MaxSampleSize)
    /\ step = "input"
    /\ source = "none"
    /\ b1 \in Factors
    /\ b2 \in Factors
    /\ z0 = 0
    /\ proc = 0
    /\ score1 = 0
    /\ score2 = 0

NextScore ==
    \/ DrawShaped
    \/ PatchShaped
    \/ Score

SpecScore == InitScore /\ [][NextScore]_vars

----------------------------------------------------------------------------
(* Properties.                                                             *)

\* the data rows of scores.csv: everything after the header
DataRows == IF Len(file) = 0 THEN << >> ELSE Tail(file)

RECURSIVE ColumnSum(_, _)
ColumnSum(rows, c) ==
    IF rows = << >> THEN 0 ELSE Head(rows)[c] + ColumnSum(Tail(rows), c)

\* the statistics step (lines 133-144) has run, to its end or to a raise
StatsRan == diffMean # Unassigned

\* every difference collected is the same number (their standard deviation is 0)
ZeroSpread == \A k \in 1..Len(diffList) : diffList[k] = diffList[1]

\* C1: in every data row written to scores.csv the fourth field (difference)
\* is the third (post score) minus the second (pre score).
C1_RowDifference ==
    \A k \in 1..Len(DataRows) : DataRows[k][4] = DataRows[k][3] - DataRows[k][2]

\* a row whose post score is below its pre score has been written
C1_Witness ==
    \E k \in 1..Len(DataRows) : DataRows[k][3] < DataRows[k][2] /\ DataRows[k][4] < 0

\* C2: for a sample size N >= 2, a run that completes has written the header
\* and then exactly N data rows whose indices are 0, 1, ..., N-1 in order.
C2_RowCountAndIndices ==
    (pc = "done" /\ SAMPLE_SIZE >= 2) =>
        /\ file[1] = HeaderRow
        /\ Len(DataRows) = SAMPLE_SIZE
        /\ \A k \in 1..Len(DataRows) : DataRows[k][1] = k - 1

\* a run with at least three rows has completed
C2_Witness == pc = "done" /\ SAMPLE_SIZE >= 3 /\ Len(DataRows) = SAMPLE_SIZE

\* C3: after every iteration the three totals are the sums of the pre, post
\* and difference columns of the rows written so far, diffList is the
\* difference column in row order and diffTotal = postTotal - preTotal; once
\* the means are computed each is its column's sum over the number of rows
\* and diffMean = postMean - preMean (as exact fractions).
C3_RunningAggregates ==
    /\ preTotal = ColumnSum(DataRows, 2)
    /\ postTotal = ColumnSum(DataRows, 3)
    /\ diffTotal = ColumnSum(DataRows, 4)
    /\ diffList = [k \in 1..Len(DataRows) |-> DataRows[k][4]]
    /\ diffTotal = postTotal - preTotal
    /\ StatsRan =>
          /\ preMean = [num |-> ColumnSum(DataRows, 2), den |-> Len(DataRows)]
          /\ postMean = [num |-> ColumnSum(DataRows, 3), den |-> Len(DataRows)]
          /\ diffMean = [num |-> ColumnSum(DataRows, 4), den |-> Len(DataRows)]
          /\ diffMean.num * postMean.den * preMean.den
                = (postMean.num * preMean.den - preMean.num * postMean.den) * diffMean.den

\* a completed run of several rows whose totals differ from any single row
C3_Witness ==
    /\ pc = "done"
    /\ Len(DataRows) >= 2
    /\ preTotal > DataRows[Len(DataRows)][2]
    /\ diffTotal # 0
    /\ diffMean.den = SAMPLE_SIZE

\* C4: when the differences have zero standard deviation the statistics step
\* does not end in an uncaught ZeroDivisionError.
C4_NoUncaughtDivisionByZero ==
    (StatsRan /\ ZeroSpread) => exception # "ZeroDivisionError"

\* C5: the logarithm of box_muller is never evaluated at a uniform draw of 0.
C5_LogNeverAtZero == ~logAtZero

\* C6: on every exit path of the run, completed or aborted, a file that was
\* opened has been closed exactly once.
C6_ClosedOnEveryExit ==
    (pc \in {"done", "aborted"} /\ opens > 0) =>
        (opens = 1 /\ closes = 1 /\ fd = "closed")

\* C7: a run that aborts before all N rows are written leaves no scores.csv
\* holding the header and fewer than N data rows.
C7_NoPartialOutput ==
    (pc = "aborted" /\ Len(diffList) < SAMPLE_SIZE) =>
        ~(Len(file) >= 1 /\ Len(DataRows) < SAMPLE_SIZE)

\* the median draw scored with bias factor 0
MedianCase ==
    step = "scored" /\ source = "box_muller" /\ z0 = 0 /\ b1 = 0

\* C8 as stated: with bias factor 0 and the median deviate (z0 = 0, sigmoid
\* 0.5) the score is medianHalf rounded down, 15.
C8_MedianScoreIsMedianHalf ==
    MedianCase => score1 = median_half_terminal \div Scale

\* C8 amended: with bias factor 0 and the median deviate the score is
\* floor(medianHalf + stdDevBase / 2), 25.
C8_MedianScoreIsCentre ==
    MedianCase =>
        /\ proc = (initial_std_dev * Scale) \div 2
        /\ score1 = (median_half_terminal + (initial_std_dev * Scale) \div 2) \div Scale
        /\ score1 = 25

C8_Witness == MedianCase /\ score1 = 25

\* C9: on the same draw the score is monotone in the bias factor: b1 <= b2
\* gives score(b1) <= score(b2); so a positive factor never scores below
\* factor 0, a negative one never above it, and with the script's factors
\* the post score is at least the pre score.
C9_MonotoneInFactor ==
    step = "scored" =>
        /\ b1 <= b2 => score1 <= score2
        /\ (b1 = 0 /\ b2 > 0) => score2 >= score1
        /\ (b1 < 0 /\ b2 = 0) => score1 <= score2
        /\ (b1 = PRE_FACTOR /\ b2 = POST_FACTOR) => score2 >= score1

\* the script's two factors scored on one drawn deviate, post strictly higher
C9_Witness ==
    /\ step = "scored"
    /\ source = "box_muller"
    /\ b1 = PRE_FACTOR
    /\ b2 = POST_FACTOR
    /\ score1 < score2

\* C10: the shaped deviate of a draw lies in the open interval (0, 20); for
\* every bias factor in [-1, 1] and every shaped deviate in (0, 20) the
\* score is an integer in [0, 49], within [0, 50] without clamping; with
\* factor 0.15 it lies in [17, 37] and with factor 0.60 in [24, 43].
C10_ScoreRange ==
    /\ (step \in {"shaped", "scored"} /\ source = "box_muller") =>
          (0 < proc /\ proc < initial_std_dev * Scale)
    /\ (step = "scored" /\ 0 < proc /\ proc < initial_std_dev * Scale) =>
          /\ score1 \in 0..49
          /\ score1 \in 0..SIMULATED_ASSESSMENT_QUIZ_ITEMS
          /\ b1 = PRE_FACTOR => score1 \in 17..37
          /\ b1 = POST_FACTOR => score1 \in 24..43

\* factor 1 on the largest shaped deviate scores 49
C10_Witness ==
    /\ step = "scored"
    /\ b1 = Scale
    /\ proc = initial_std_dev * Scale - 1
    /\ score1 = 49

=============================================================================
